---------------------------- MODULE Spec2Model ----------------------------
(***************************************************************************)
(* The two formatters of the Italian traffic-sign scripts:                 *)
(*   incubating/preset-formatter.py  catalogue -> JOSM tagging preset      *)
(*   incubating/style-formatter.py   catalogue -> MapCSS style sheet       *)
(*                                                                         *)
(* Strings.  A Python string is modelled as a sequence of lexemes.  A      *)
(* lexeme is either one of the characters the scripts look at ("=", " ",   *)
(* "/", "{", "}", "(", ")", ",", ...) or a run of characters none of the   *)
(* operations cuts ("traffic_sign", "II.50", ...).  Before str.format the  *)
(* replacement field "{id}" and the escaped braces "{{" and "}}" are       *)
(* lexemes of their own.  COUNTRY_PREFIX is the lexeme "IT:" and the       *)
(* category letter "M" of a supplementary sign is a lexeme of its own, so  *)
(* that startswith("IT:M") is a comparison of the first two lexemes.       *)
(*                                                                         *)
(* Numbers.  Lengths and factors of the style sheet are rationals kept as  *)
(* integers in units of 1/Unit; a product of two such numbers is divided   *)
(* by Unit once.                                                           *)
(***************************************************************************)
EXTENDS Integers, Sequences, FiniteSets, TLC

VARIABLES
    prog,       \* which script this run is: "preset" or "style"
    pc,         \* position of the script
    items,      \* the catalogue read from stdin (json.load), mutated in place
    pos,        \* number of catalogue records the script's loop has consumed
    groups,     \* preset: the group nodes built so far, the open one last
    stdout,     \* what the script has printed, one element per print
    exitcode,   \* "running", "0" (normal end or sys.exit()), "1" (traceback)
    id2url,     \* style: dict id -> url, in insertion order
    id2aspect,  \* style: dict id -> height/width, in insertion order
    layerIx,    \* style: index of the current layer in Layers
    idx,        \* style: the current slot of the layer loop
    pole,       \* the map node the style sheet is applied to (rendering)
    cascade     \* the properties the layer rules gave that node

vars == <<prog, pc, items, pos, groups, stdout, exitcode,
          id2url, id2aspect, layerIx, idx, pole, cascade>>

---------------------------------------------------------------------------
(* Bounds of the model *)

MaxItems == 3

---------------------------------------------------------------------------
(* Strings as lexeme sequences *)

Ws == {" ", "\t", "\n"}

\* s[i..] (the empty string when i > Len(s))
From(s, i) == SubSeq(s, i, Len(s))

\* the least index of lexeme c in s, 0 when there is none (str.find)
RECURSIVE FindFrom(_, _, _)
FindFrom(s, c, i) ==
    IF i > Len(s) THEN 0
    ELSE IF s[i] = c THEN i
    ELSE FindFrom(s, c, i + 1)

Contains(s, c) == \E i \in 1..Len(s) : s[i] = c

\* str.startswith
StartsWith(s, p) == Len(s) >= Len(p) /\ SubSeq(s, 1, Len(p)) = p

\* str.split(sep) for a one-character separator: always at least one part
RECURSIVE Split(_, _)
Split(s, sep) ==
    LET i == FindFrom(s, sep, 1)
    IN  IF i = 0 THEN <<s>>
        ELSE <<SubSeq(s, 1, i - 1)>> \o Split(From(s, i + 1), sep)

\* str.split() without argument: runs of whitespace separate, no empty parts
RECURSIVE SplitWs(_)
SplitWs(s) ==
    IF s = <<>> THEN <<>>
    ELSE IF s[1] \in Ws THEN SplitWs(Tail(s))
    ELSE LET n == CHOOSE k \in 1..Len(s) :
                      /\ \A j \in 1..k : s[j] \notin Ws
                      /\ (k = Len(s) \/ s[k + 1] \in Ws)
         IN  <<SubSeq(s, 1, n)>> \o SplitWs(From(s, n + 1))

\* sep.join(parts)
RECURSIVE Join(_, _)
Join(parts, sep) ==
    IF parts = <<>> THEN <<>>
    ELSE IF Len(parts) = 1 THEN parts[1]
    ELSE parts[1] \o <<sep>> \o Join(Tail(parts), sep)

\* str.replace(c, "") for a one-lexeme c
RECURSIVE Remove(_, _)
Remove(s, c) ==
    IF s = <<>> THEN <<>>
    ELSE IF s[1] = c THEN Remove(Tail(s), c)
    ELSE <<s[1]>> \o Remove(Tail(s), c)

\* str.replace(a, b) for one-lexeme a and b
Replace(s, a, b) == [i \in 1..Len(s) |-> IF s[i] = a THEN b ELSE s[i]]

\* str.strip()
RECURSIVE LStrip(_)
LStrip(s) == IF s # <<>> /\ s[1] \in Ws THEN LStrip(Tail(s)) ELSE s
RECURSIVE RStrip(_)
RStrip(s) ==
    IF s # <<>> /\ s[Len(s)] \in Ws THEN RStrip(SubSeq(s, 1, Len(s) - 1)) ELSE s
Strip(s) == RStrip(LStrip(s))

\* str.capitalize() on the lexemes the model's keys begin with; every other
\* lexeme of the model's keys is lower case already
UpperFirst(w) ==
    CASE w = "traffic_sign" -> "Traffic_sign"
      [] w = "maxspeed"     -> "Maxspeed"
      [] w = "hazard"       -> "Hazard"
      [] w = "distance"     -> "Distance"
      [] w = "foo"          -> "Foo"
      [] w = "ref"          -> "Ref"
      [] OTHER              -> w
Capitalize(s) == IF s = <<>> THEN s ELSE <<UpperFirst(s[1])>> \o Tail(s)

\* the characters of the regular expression class \w, as lexemes
Words == {"maxspeed", "distance", "hazard", "traffic_sign", "foo"}

---------------------------------------------------------------------------
(* preset-formatter.py: constants *)

COUNTRY_PREFIX == <<"IT:">>

THUMBS == { <<"II.35">>, <<"II.37">>, <<"II.50">>, <<"II.88">>, <<"II.272">>,
            <<"II.275">>, <<"II.285">>, <<"II.294">>, <<"II.303">>,
            <<"II.356">>, <<"M", "II.7">>, <<"M", "II.8b">> }

\* The override table: the entries for the ids of the model's catalogue,
\* one for each shape of template the table holds (a plain fixed tag, a
\* templated value with a free-text tag, nosave placeholders, a
\* supplementary sign).
TAGS ==
    << << <<"II.30", "a">>,
          <<"traffic_sign", "=", "{id}", " ", "hazard", "=", "falling_rocks">> >>,
       << <<"II.50">>,
          <<"traffic_sign", "=", "{id}", "[", "{{", "maxspeed", "}}", "]", " ",
            "maxspeed", "=", "*">> >>,
       << <<"II.71">>,
          <<"traffic_sign", "=", "{id}", "[", "{{", "nosave:", "maxspeed", "}}", "]",
            " ", "maxspeed", "=", "implicit">> >>,
       << <<"M", "II.1">>,
          <<"traffic_sign", "=", "{id}", "[", "{{", "nosave:", "distance", "}}", "]">> >>
    >>

\* dict lookup on a sequence of <<key, value>> pairs kept in insertion order
HasKey(d, k) == \E i \in 1..Len(d) : d[i][1] = k
Get(d, k, default) ==
    IF HasKey(d, k) THEN d[CHOOSE i \in 1..Len(d) : d[i][1] = k][2] ELSE default
\* d[k] = v: a new key is appended, an old key keeps its place
Put(d, k, v) ==
    IF HasKey(d, k)
    THEN [i \in 1..Len(d) |-> IF d[i][1] = k THEN <<k, v>> ELSE d[i]]
    ELSE Append(d, <<k, v>>)

---------------------------------------------------------------------------
(* preset-formatter.py: tags() *)

\* t.format(id = ident): "{id}" is replaced, "{{" and "}}" are unescaped
RECURSIVE Format(_, _)
Format(t, ident) ==
    IF t = <<>> THEN <<>>
    ELSE (CASE t[1] = "{id}" -> ident
            [] t[1] = "{{"   -> <<"{">>
            [] t[1] = "}}"   -> <<"}">>
            [] OTHER         -> <<t[1]>>) \o Format(Tail(t), ident)

\* lambda tag: tag.split("=")[0]
TagKey(tag) == Split(tag, "=")[1]

\* itertools.groupby(tags, key): the maximal runs of adjacent tags with equal
\* key, as <<key, run>> pairs
RECURSIVE GroupBy(_)
GroupBy(ts) ==
    IF ts = <<>> THEN <<>>
    ELSE LET k == TagKey(ts[1])
             n == CHOOSE m \in 1..Len(ts) :
                      /\ \A j \in 1..m : TagKey(ts[j]) = k
                      /\ (m = Len(ts) \/ TagKey(ts[m + 1]) # k)
         IN  <<[key |-> k, run |-> SubSeq(ts, 1, n)]>> \o GroupBy(From(ts, n + 1))

\* re.findall(r"\{nosave:(\w+)\}", value), in order of occurrence
RECURSIVE FindNosave(_)
FindNosave(v) ==
    IF Len(v) < 4 THEN <<>>
    ELSE IF v[1] = "{" /\ v[2] = "nosave:" /\ v[3] \in Words /\ v[4] = "}"
         THEN <<v[3]>> \o FindNosave(From(v, 5))
         ELSE FindNosave(Tail(v))

\* t.split("=")[1] raises IndexError when t holds no "="
HasValue(t) == Len(Split(t, "=")) >= 2
\* TagValue with all that follows the first "="
TagValueRest(t) ==
    LET p == CHOOSE i \in 1..Len(t) : t[i] = "=" /\ \A j \in 1..(i - 1) : t[j] # "="
    IN  SubSeq(t, p + 1, Len(t))

TagValue(t) == Split(t, "=")[2]

ComboField(key, gtags) ==
    [tag    |-> "combo",
     text   |-> Capitalize(key),
     key    |-> key,
     values |-> Join([i \in 1..Len(gtags) |-> TagValue(gtags[i])], ",")]

TextField(key) == [tag |-> "text", text |-> Capitalize(key), key |-> key]

\* NosaveFields without the text fields
NosaveFieldsNone(value) == <<>>

NosaveFields(value) ==
    IF Contains(value, "{")
    THEN LET ks == FindNosave(value)
         IN  [i \in 1..Len(ks) |->
                 [tag |-> "text", text |-> Capitalize(<<ks[i]>>),
                  key |-> <<"nosave:", ks[i]>>]]
    ELSE <<>>

\* AppendWith on the value alone
AppendWithAnyKey(key, value) ==
    IF StartsWith(value, COUNTRY_PREFIX \o <<"M">>) THEN <<",">> ELSE <<";">>

AppendWith(key, value) ==
    IF key = <<"traffic_sign">> /\ StartsWith(value, COUNTRY_PREFIX \o <<"M">>)
    THEN <<",">> ELSE <<";">>

KeyField(key, value) ==
    IF Contains(value, "{")
    THEN [tag |-> "key", key |-> key, append_with |-> AppendWith(key, value),
          append_regex_search |-> <<"^">> \o COUNTRY_PREFIX,
          value_template |-> value]
    ELSE [tag |-> "key", key |-> key, append_with |-> AppendWith(key, value),
          append_regex_search |-> <<"^">> \o COUNTRY_PREFIX,
          value |-> value]

\* one iteration of the loop over the groups: the nodes appended to e, or the
\* IndexError
GroupFields(id_, g) ==
    LET gtags == [i \in 1..Len(g.run) |-> Format(g.run[i], COUNTRY_PREFIX \o id_)]
    IN  IF \E i \in 1..Len(gtags) : ~HasValue(gtags[i])
        THEN [ok |-> FALSE, fields |-> <<>>, gtags |-> gtags]
        ELSE IF Len(gtags) > 1
        THEN [ok |-> TRUE, fields |-> <<ComboField(g.key, gtags)>>, gtags |-> gtags]
        ELSE LET value == TagValue(gtags[1])
             IN  IF value = <<"*">>
                 THEN [ok |-> TRUE, fields |-> <<TextField(g.key)>>, gtags |-> gtags]
                 ELSE [ok |-> TRUE,
                       fields |-> NosaveFields(value) \o <<KeyField(g.key, value)>>,
                       gtags |-> gtags]

\* the loop of tags() over the groups gs, e holding `done` already
RECURSIVE TagsLoop(_, _, _)
TagsLoop(id_, gs, done) ==
    IF gs = <<>> THEN [ok |-> TRUE, fields |-> done]
    ELSE LET r == GroupFields(id_, gs[1])
         IN  IF r.ok
             THEN TagsLoop(id_, Tail(gs), done \o r.fields)
             ELSE [ok |-> FALSE, fields |-> done,
                   report |-> [id |-> id_, gtags |-> r.gtags]]

\* tags(e, id_, tags_): tags_ is a str (an entry of TAGS), split at white
\* space, or a list (the record's tags); the result is the nodes appended
\* to e, and the report when the IndexError handler ran
tags(id_, tags_) ==
    TagsLoop(id_, GroupBy(IF tags_.isstr THEN SplitWs(tags_.v) ELSE tags_.v), <<>>)

---------------------------------------------------------------------------
(* The catalogue: the records osm-wiki-scraper.py writes *)

SecDanger == <<"Pericolo", " ", "(", "Danger", ")">>
SecBan    == <<"Divieto">>

Urls == << <<"https://upload.wikimedia.org/a.svg">> >>

\* the text of the <tt> elements of the wiki table
TagTemplated == <<"traffic_sign", "=", "{id}", "[", "{{", "maxspeed", "}}", "]">>
TagMaxspeed  == <<"maxspeed", "=", "*">>
TagHazardA   == <<"hazard", "=", "ice">>
TagHazardB   == <<"hazard", "=", "fog", "=", "x">>
TagNoEquals  == <<"foo">>
TagRef       == <<"ref", "=", "{id}">>

Names == << << <<"it.", "name">>, <<"Caduta massi">> >>,
            << <<"name">>, <<"Falling rocks">> >> >>

\* id with a slash, overridden after normalisation; the svg declares no
\* dimensions
RecRocks ==
    [section |-> SecDanger, id |-> <<"II.30", "/", "a">>, urls |-> Urls,
     tags |-> <<TagHazardA>>, names |-> Names, wiki |-> <<"/wiki/", "Rocks">>,
     filename |-> <<"rocks.svg">>]
\* thumbnail id, overridden, icon twice as wide as high
RecMaxspeed ==
    [section |-> SecBan, id |-> <<"II.50">>, urls |-> Urls,
     tags |-> <<TagTemplated, TagMaxspeed>>, names |-> Names,
     filename |-> <<"maxspeed.svg">>, width |-> 2, height |-> 1]
\* supplementary sign, overridden, icon twice as high as wide
RecDistance ==
    [section |-> SecBan, id |-> <<"M", "II.1">>, urls |-> Urls,
     tags |-> <<>>, names |-> Names,
     filename |-> <<"distance.svg">>, width |-> 1, height |-> 2]
\* no override: the wiki row carries a traffic_sign tag of its own, then a
\* key twice in a row, the second value with a second "="
RecCombo ==
    [section |-> SecBan, id |-> <<"II.400">>, urls |-> Urls,
     tags |-> <<TagTemplated, TagHazardA, TagHazardB>>, names |-> Names,
     filename |-> <<"combo.svg">>, width |-> 4, height |-> 5]
\* no override: a <tt> element without "="; an svg of height 0
RecNoEquals ==
    [section |-> SecDanger, id |-> <<"II.402">>, urls |-> Urls,
     tags |-> <<TagNoEquals>>, names |-> Names,
     filename |-> <<"noeq.svg">>, width |-> 1, height |-> 0]
\* a table row without an id cell
RecNoId ==
    [section |-> SecBan, urls |-> Urls, tags |-> <<TagHazardA>>, names |-> Names,
     filename |-> <<"noid.svg">>, width |-> 1, height |-> 1]
\* a record without an image url
RecNoUrls ==
    [section |-> SecDanger, id |-> <<"II.403">>, urls |-> <<>>,
     tags |-> <<TagHazardA>>, names |-> Names,
     filename |-> <<"nourls.svg">>, width |-> 1, height |-> 1]
\* an image whose url the scraper called bogus: no filename
RecNoFile ==
    [section |-> SecBan, id |-> <<"II.404">>, urls |-> Urls,
     tags |-> <<TagHazardA>>, names |-> Names, width |-> 1, height |-> 1]
\* an svg that declares width="0"
RecZeroWidth ==
    [section |-> SecBan, id |-> <<"II.405">>, urls |-> Urls,
     tags |-> <<>>, names |-> Names,
     filename |-> <<"zero.svg">>, width |-> 0, height |-> 1]
\* a filename that is the empty string
RecEmptyFile ==
    [section |-> SecDanger, id |-> <<"II.406">>, urls |-> Urls,
     tags |-> <<>>, names |-> Names,
     filename |-> <<>>, width |-> 1, height |-> 1]

\* supplementary sign without override whose wiki row repeats the code
\* under another key; a tag with a second "=" that stands alone
RecSupplement ==
    [section |-> SecDanger, id |-> <<"M", "II.9">>, urls |-> Urls,
     tags |-> <<TagRef, TagHazardB>>, names |-> Names,
     filename |-> <<"supplement.svg">>, width |-> 3, height |-> 1]

Records == {RecRocks, RecMaxspeed, RecDistance, RecCombo, RecNoEquals,
            RecNoId, RecNoUrls, RecNoFile, RecZeroWidth, RecEmptyFile,
            RecSupplement}

\* the sequences over S of length 0..n
SeqUpTo(S, n) == UNION {[1..k -> S] : k \in 0..n}

Catalogues == SeqUpTo(Records, MaxItems)

---------------------------------------------------------------------------
(* preset-formatter.py: the main loop *)

\* NoFilename with the test of style-formatter.py: an empty filename too
NoFilenameOrEmpty(item) ==
    IF "filename" \notin DOMAIN item THEN TRUE ELSE item.filename = <<>>

\* item.get("filename"): None for a missing key
NoFilename(item) == "filename" \notin DOMAIN item

\* Skipped without the test of the urls
SkippedUrlsUnchecked(item) ==
    IF "id" \notin DOMAIN item THEN TRUE ELSE NoFilename(item)

\* the three `continue`s at the head of the loop body
Skipped(item) ==
    IF "id" \notin DOMAIN item THEN TRUE
    ELSE IF Len(item.urls) = 0 THEN TRUE
    ELSE NoFilename(item)

\* item["id"].strip().replace("/", "")
NormId(item) == Remove(Strip(item.id), "/")

\* re.match(r"^(.*?)\s+\((.*?)\)$", section).  "." matches no line feed and
\* "$" matches at the end or before a line feed that ends the label.
\* SectionEnd: the place of the ")" that "\)$" can match, 0 for none
SectionEnd(section) ==
    IF section = <<>> THEN 0
    ELSE IF section[Len(section)] = ")" THEN Len(section)
    ELSE IF Len(section) >= 2 /\ section[Len(section)] = "\n"
            /\ section[Len(section) - 1] = ")"
         THEN Len(section) - 1
         ELSE 0
\* the lengths i of group 1 for which the rest matches: white space up to
\* a "(", no line feed in either group, the closing ")" at SectionEnd
SectionCuts(section) ==
    {i \in 0..Len(section) :
        \E k \in (i + 1)..Len(section) :
            /\ \A j \in 1..i : section[j] # "\n"
            /\ \A j \in (i + 1)..k : section[j] \in Ws
            /\ k + 2 <= SectionEnd(section)
            /\ section[k + 1] = "("
            /\ \A j \in (k + 2)..(SectionEnd(section) - 1) : section[j] # "\n"}
\* the lazy group 1 takes the least length; -1 when there is no match
SectionMatch(section) ==
    IF SectionCuts(section) = {} THEN -1
    ELSE CHOOSE i \in SectionCuts(section) : \A j \in SectionCuts(section) : i <= j

\* E.group(icon_size="48") with its name attributes
NewGroup(section) ==
    LET i == SectionMatch(section)
    IN  IF i >= 0
        THEN LET k == CHOOSE m \in (i + 1)..Len(section) :
                          /\ \A j \in (i + 1)..m : section[j] \in Ws
                          /\ section[m + 1] = "("
             IN  [icon_size |-> <<"48">>,
                  itname |-> SubSeq(section, 1, i),
                  name   |-> SubSeq(section, k + 2, SectionEnd(section) - 1),
                  items  |-> <<>>]
        ELSE [icon_size |-> <<"48">>, itname |-> section, items |-> <<>>]

\* s.get("section", "unknown")
SectionOf(item) ==
    IF "section" \in DOMAIN item THEN item.section ELSE <<"unknown">>

\* OpensGroup as a grouping by label would have it: only a label not seen yet
\* opens a group
OpensGroupFirstSeen(its, i) ==
    \A j \in 1..(i - 1) : SectionOf(its[j]) # SectionOf(its[i])

\* itertools.groupby(items, section): record i opens a new group when it is the
\* first or its section differs from the section of record i - 1
OpensGroup(its, i) == i = 1 \/ SectionOf(its[i]) # SectionOf(its[i - 1])

\* the groups with the group of record i opened if need be
WithGroup(gs, its, i) ==
    IF OpensGroup(its, i) THEN Append(gs, NewGroup(SectionOf(its[i]))) ELSE gs

\* for key, value in item["names"].items(): key.replace("name", "tooltip")
Tooltips(item) ==
    [i \in 1..Len(item.names) |->
        <<Replace(item.names[i][1], "name", "tooltip"), item.names[i][2]>>]

\* E.link(wiki=item["wiki"].replace("/wiki/", ""))
LinkNodes(item) ==
    IF "wiki" \in DOMAIN item
    THEN <<[tag |-> "link", wiki |-> Remove(item.wiki, "/wiki/")]>>
    ELSE <<>>

CanonicalTag == <<"traffic_sign", "=", "{id}">>

\* TagSource without the override table
TagSourceRawOnly(id_, rawtags) == [isstr |-> FALSE, v |-> rawtags]

\* TAGS.get(id_, item["tags"]), item["tags"] being the list after the append
TagSource(id_, rawtags) ==
    IF HasKey(TAGS, id_)
    THEN [isstr |-> TRUE, v |-> Get(TAGS, id_, <<>>)]
    ELSE [isstr |-> FALSE, v |-> rawtags]

\* the E.item node of a record, its children being link, fields, reference
ItemNode(item, fields) ==
    [name |-> NormId(item), icon |-> item.filename, type |-> <<"node">>,
     preset_name_label |-> <<"true">>, tooltips |-> Tooltips(item),
     children |-> LinkNodes(item) \o fields
                  \o <<[tag |-> "reference", ref |-> <<"t">>]>>]

\* g.append(e), and g.attrib["icon"] = url for a thumbnail id
AddItem(g, item, e) ==
    LET g1 == IF NormId(item) \in THUMBS
              THEN [x \in DOMAIN g \cup {"icon"} |->
                        IF x = "icon" THEN item.filename ELSE g[x]]
              ELSE g
    IN  [g1 EXCEPT !.items = Append(@, e)]

\* item["tags"].append("traffic_sign={id}")
AppendCanonical(its, i) ==
    [its EXCEPT ![i] = [@ EXCEPT !.tags = Append(@, CanonicalTag)]]

\* the document of lines 262-287: the shared chunk "t" and the root group
PresetDocument(gs) ==
    [kind   |-> "presets",
     chunk  |-> [id |-> <<"t">>, key |-> <<"direction">>],
     group  |-> [icon |-> <<"flag.svg">>, sort_menu |-> <<"false">>, groups |-> gs],
     icon_base |-> <<"svgs/">>]

\* what the loop body does with record i once the `continue`s are passed
Resolved(its, i) ==
    LET its1 == AppendCanonical(its, i)
        id_  == NormId(its1[i])
    IN  tags(id_, TagSource(id_, its1[i].tags))

\* the handler going on with the next record instead of leaving
AfterAbortContinue == "loop"

\* line 208: sys.exit() ends the script
AfterAbort == "done"

\* lines 225-232: a record the loop passes over
PresetSkip ==
    /\ prog = "preset" /\ pc = "loop" /\ pos < Len(items)
    /\ Skipped(items[pos + 1])
    /\ groups' = WithGroup(groups, items, pos + 1)
    /\ pos' = pos + 1
    /\ UNCHANGED <<prog, pc, items, stdout, exitcode,
                   id2url, id2aspect, layerIx, idx, pole, cascade>>

\* lines 234-258: a record that becomes an item
PresetItem ==
    /\ prog = "preset" /\ pc = "loop" /\ pos < Len(items)
    /\ ~Skipped(items[pos + 1])
    /\ LET i  == pos + 1
           r  == Resolved(items, i)
           gs == WithGroup(groups, items, i)
           e  == ItemNode(items[i], r.fields)
       IN  /\ r.ok
           /\ items' = AppendCanonical(items, i)
           /\ groups' = [gs EXCEPT ![Len(gs)] = AddItem(@, items[i], e)]
    /\ pos' = pos + 1
    /\ UNCHANGED <<prog, pc, stdout, exitcode,
                   id2url, id2aspect, layerIx, idx, pole, cascade>>

\* lines 206-208: tags() caught an IndexError: print(id_, gtags); sys.exit()
PresetAbort ==
    /\ prog = "preset" /\ pc = "loop" /\ pos < Len(items)
    /\ ~Skipped(items[pos + 1])
    /\ LET i == pos + 1
           r == Resolved(items, i)
       IN  /\ ~r.ok
           /\ items' = AppendCanonical(items, i)
           /\ groups' = WithGroup(groups, items, i)
           /\ stdout' = Append(stdout, [kind |-> "report", id |-> r.report.id,
                                        gtags |-> r.report.gtags])
    /\ pos' = pos + 1
    /\ pc' = AfterAbort
    /\ exitcode' = "0"
    /\ UNCHANGED <<prog, id2url, id2aspect, layerIx, idx, pole, cascade>>

\* lines 262-289: the loop is over, the document is printed
PresetEmit ==
    /\ prog = "preset" /\ pc = "loop" /\ pos = Len(items)
    /\ stdout' = Append(stdout, PresetDocument(groups))
    /\ pc' = "done"
    /\ exitcode' = "0"
    /\ UNCHANGED <<prog, items, pos, groups, id2url, id2aspect,
                   layerIx, idx, pole, cascade>>

PresetNext == PresetSkip \/ PresetItem \/ PresetAbort \/ PresetEmit

---------------------------------------------------------------------------
(* style-formatter.py: the lookup tables *)

\* lines 36-39: the two `continue`s, and line 43: a missing or empty filename
StyleSkipped(item) ==
    IF "id" \notin DOMAIN item THEN TRUE
    ELSE IF Len(item.urls) = 0 THEN TRUE
    ELSE IF "filename" \notin DOMAIN item THEN TRUE
    ELSE item.filename = <<>>

\* item.get("height", 1.0) and item.get("width", 1.0)
HeightOf(item) == IF "height" \in DOMAIN item THEN item.height ELSE 1
WidthOf(item)  == IF "width" \in DOMAIN item THEN item.width ELSE 1

\* line 44: id2url[id_] = "svgs/" + filename
UrlEntry(d, item) == Put(d, item.id, <<"svgs/">> \o item.filename)

\* line 45: id2aspect[id_] = height / width, the quotient kept as a fraction
AspectEntry(d, item) ==
    Put(d, item.id, [num |-> HeightOf(item), den |-> WidthOf(item)])

\* lines 48-53: the signs drawn on an empty template
Substitutes ==
    << << <<"II.50">>,       <<"maxspeed-empty.svg">> >>,
       << <<"II.71">>,       <<"maxspeed-end-empty.svg">> >>,
       << <<"II.323a">>,     <<"zone-maxspeed-empty.svg">> >>,
       << <<"M", "II.1">>,   <<"distance-empty.svg">> >>,
       << <<"M", "II.2">>,   <<"length-empty.svg">> >>,
       << <<"M", "II.3">>,   <<"distance-empty.svg">> >> >>

RECURSIVE PutAll(_, _)
PutAll(d, kvs) ==
    IF kvs = <<>> THEN d ELSE PutAll(Put(d, kvs[1][1], kvs[1][2]), Tail(kvs))

Unit == 100

\* n / d rounded to an integer, ties to even
RoundHalfEven(n, d) ==
    LET q == n \div d
        r == n % d
    IN  IF 2 * r < d THEN q
        ELSE IF 2 * r > d THEN q + 1
        ELSE IF q % 2 = 0 THEN q ELSE q + 1

\* f"{v:.2}": v rounded to two significant digits, as a number in 1/Unit.
\* The catalogue's quotients are 0 or lie in [0.1, 10) and none rounds up
\* into the next decade, so two decades are told apart.
Fmt2(v) ==
    IF v.num = 0 THEN 0
    ELSE IF v.num >= v.den
    THEN RoundHalfEven(10 * v.num, v.den) * (Unit \div 10)
    ELSE RoundHalfEven(100 * v.num, v.den) * (Unit \div 100)

\* lines 57-64: the globals block
GlobalsBlock(urls, aspects) ==
    [kind    |-> "globals",
     urls    |-> urls,
     aspects |-> [i \in 1..Len(aspects) |-> <<aspects[i][1], Fmt2(aspects[i][2])>>]]

---------------------------------------------------------------------------
(* style-formatter.py: the rules *)

IconSizeDefault == 32

\* expressions of the declarations
Num(n)          == [op |-> "num", n |-> n]
Setting(name)   == [op |-> "setting", name |-> name]
Prop(key)       == [op |-> "prop", key |-> key]
PropIn(key, l)  == [op |-> "prop_in", key |-> key, layer |-> l]
Mul(a, b)       == [op |-> "mul", a |-> a, b |-> b]
Add(a, b)       == [op |-> "add", a |-> a, b |-> b]
Sub(a, b)       == [op |-> "sub", a |-> a, b |-> b]
MapGet(m, k, d) == [op |-> "map_get", map |-> m, key |-> k, default |-> d]
Lit(x)          == [op |-> "lit", v |-> x]
Concat(parts)   == [op |-> "concat", parts |-> parts]
UrlQueryEncode(k, v) == [op |-> "url_query_encode", key |-> k, value |-> v]

StaticRule(role, sel) == [kind |-> "static", role |-> role, sel |-> sel]

\* lines 23-31
MetaBlock == [kind |-> "meta", title |-> "Traffic Signs in Italy", version |-> "0.1"]

\* lines 66-154, rule by rule
Boilerplate ==
    << [kind |-> "setting", name |-> "icon_size", default |-> IconSizeDefault],
       StaticRule("no_maxspeed", "node[prop(maxspeedclass, default)]::core_maxnodebg"),
       StaticRule("no_maxspeed", "node[prop(maxspeedclass, default)]::core_maxnodefg"),
       StaticRule("select", "node[traffic_sign=~/IT:M?II/]"),
       StaticRule("select", "node[direction=forward].sign"),
       StaticRule("select", "node[direction=backward].sign"),
       StaticRule("select", "node[\"traffic_sign:forward\"=~/IT:M?II/]"),
       StaticRule("select", "node[\"traffic_sign:backward\"=~/IT:M?II/]"),
       StaticRule("rotation", "node[direction=~/^[NWSE]+$/].sign"),
       StaticRule("rotation", "node[direction=~/^[.0-9]+$/].sign"),
       StaticRule("rotation", "way[highway] > node.sign-forward, way[highway] > node.sign-backward"),
       StaticRule("codes", "node[prop(traffic-sign)]"),
       StaticRule("codes", "node[prop(traffic-sign-forward)].sign"),
       StaticRule("codes", "node[prop(traffic-sign-backward)]"),
       StaticRule("styles", "node.sign") >>

\* lines 191-218
Trailer ==
    << [kind |-> "static", role |-> "base", sel |-> "node[prop(sign, default)]::*",
        decls |-> << <<"icon-width", Setting("icon_size")>>,
                     <<"icon-height", Setting("icon_size")>> >>],
       StaticRule("zoom_cutoff", "node|z-16[prop(sign, default)]::*") >>

\* Layers in another order
LayersForwardFirst == <<"forward", "noward", "backward">>

\* line 156
Layers == <<"noward", "forward", "backward">>
\* line 162: how many signs max. on one pole
MaxSigns == 3

\* lines 157-159
Transform(layer) ==
    IF layer = "backward"
    THEN "transform(rotate(0.5turn), prop(transformprop, default))"
    ELSE "prop(transformprop, default)"

\* OffsetDecls with the height of the slot above added instead of the slot's own
OffsetDeclsPrevHeight(layer, i) ==
    IF i = 0
    THEN << <<"yoffsetprop", Mul(Prop("real-height"), Num(Unit \div 2))>> >>
    ELSE << <<"yoffsetprop",
              Add(PropIn("yoffsetprop", <<layer, i - 1>>),
                  PropIn("real-height", <<layer, i - 1>>))>>,
            <<"icon-offset-y",
              Sub(Prop("yoffsetprop"), Mul(Prop("real-height"), Num(Unit \div 2)))>> >>

\* OffsetDecls with the slot's height subtracted instead of added
OffsetDeclsUpwards(layer, i) ==
    IF i = 0
    THEN << <<"yoffsetprop", Mul(Prop("real-height"), Num(Unit \div 2))>> >>
    ELSE << <<"yoffsetprop",
              Sub(PropIn("yoffsetprop", <<layer, i - 1>>), Prop("real-height"))>>,
            <<"icon-offset-y",
              Sub(Prop("yoffsetprop"), Mul(Prop("real-height"), Num(Unit \div 2)))>> >>

\* OffsetDecls with the icon put at the accumulated offset itself
OffsetDeclsNoHalf(layer, i) ==
    IF i = 0
    THEN << <<"yoffsetprop", Mul(Prop("real-height"), Num(Unit \div 2))>> >>
    ELSE << <<"yoffsetprop",
              Add(PropIn("yoffsetprop", <<layer, i - 1>>), Prop("real-height"))>>,
            <<"icon-offset-y", Prop("yoffsetprop")>> >>

\* lines 179-188: the declarations that depend on the slot
OffsetDecls(layer, i) ==
    IF i = 0
    THEN << <<"yoffsetprop", Mul(Prop("real-height"), Num(Unit \div 2))>> >>
    ELSE << <<"yoffsetprop",
              Add(PropIn("yoffsetprop", <<layer, i - 1>>), Prop("real-height"))>>,
            <<"icon-offset-y",
              Sub(Prop("yoffsetprop"), Mul(Prop("real-height"), Num(Unit \div 2)))>> >>

\* lines 163-189: the rule of one layer and slot
LayerRule(layer, i) ==
    [kind  |-> "layer", layer |-> layer, idx |-> i,
     decls |-> << <<"icon-transform", Lit(Transform(layer))>>,
                  <<"traffic-sign-id", [op |-> "code_id"]>>,
                  <<"traffic-sign-texts", [op |-> "code_text"]>>,
                  <<"icon-image",
                    Concat(<<MapGet("urls", Prop("traffic-sign-id"), Lit(<<"unknown">>)),
                             Lit(<<"?">>),
                             UrlQueryEncode("text", Prop("traffic-sign-texts"))>>)>>,
                  <<"real-height",
                    Mul(Setting("icon_size"),
                        MapGet("aspects", Prop("traffic-sign-id"), Num(Unit)))>>,
                  <<"font-size", Mul(Prop("real-height"), Num((3 * Unit) \div 4))>> >>
               \o OffsetDecls(layer, i)]

---------------------------------------------------------------------------
(* style-formatter.py: the script *)

\* lines 23-31
StyleMeta ==
    /\ prog = "style" /\ pc = "meta"
    /\ stdout' = Append(stdout, MetaBlock)
    /\ pc' = "loop"
    /\ UNCHANGED <<prog, items, pos, groups, exitcode, id2url, id2aspect,
                   layerIx, idx, pole, cascade>>

\* lines 35-43: a record that leaves no entry
StyleSkip ==
    /\ prog = "style" /\ pc = "loop" /\ pos < Len(items)
    /\ StyleSkipped(items[pos + 1])
    /\ pos' = pos + 1
    /\ UNCHANGED <<prog, pc, items, groups, stdout, exitcode, id2url, id2aspect,
                   layerIx, idx, pole, cascade>>

\* lines 40-45: a record with a filename
StyleEntry ==
    /\ prog = "style" /\ pc = "loop" /\ pos < Len(items)
    /\ ~StyleSkipped(items[pos + 1])
    /\ WidthOf(items[pos + 1]) # 0
    /\ id2url' = UrlEntry(id2url, items[pos + 1])
    /\ id2aspect' = AspectEntry(id2aspect, items[pos + 1])
    /\ pos' = pos + 1
    /\ UNCHANGED <<prog, pc, items, groups, stdout, exitcode,
                   layerIx, idx, pole, cascade>>

\* line 45 with a width of 0: ZeroDivisionError after line 44 has run
StyleCrash ==
    /\ prog = "style" /\ pc = "loop" /\ pos < Len(items)
    /\ ~StyleSkipped(items[pos + 1])
    /\ WidthOf(items[pos + 1]) = 0
    /\ id2url' = UrlEntry(id2url, items[pos + 1])
    /\ pos' = pos + 1
    /\ pc' = "done"
    /\ exitcode' = "1"
    /\ UNCHANGED <<prog, items, groups, stdout, id2aspect,
                   layerIx, idx, pole, cascade>>

\* lines 48-64: the substitutes, then the globals block
StyleGlobals ==
    /\ prog = "style" /\ pc = "loop" /\ pos = Len(items)
    /\ id2url' = PutAll(id2url, Substitutes)
    /\ stdout' = Append(stdout, GlobalsBlock(id2url', id2aspect))
    /\ pc' = "boiler"
    /\ UNCHANGED <<prog, items, pos, groups, exitcode, id2aspect,
                   layerIx, idx, pole, cascade>>

\* lines 66-154
StyleBoiler ==
    /\ prog = "style" /\ pc = "boiler"
    /\ stdout' = stdout \o Boilerplate
    /\ pc' = "layers"
    /\ layerIx' = 1
    /\ idx' = 0
    /\ UNCHANGED <<prog, items, pos, groups, exitcode, id2url, id2aspect,
                   pole, cascade>>

\* lines 156-189: one turn of the inner loop
StyleLayer ==
    /\ prog = "style" /\ pc = "layers"
    /\ stdout' = Append(stdout, LayerRule(Layers[layerIx], idx))
    /\ IF idx + 1 < MaxSigns
       THEN /\ idx' = idx + 1
            /\ UNCHANGED <<layerIx, pc>>
       ELSE IF layerIx < Len(Layers)
       THEN /\ idx' = 0
            /\ layerIx' = layerIx + 1
            /\ pc' = pc
       ELSE /\ pc' = "trailer"
            /\ UNCHANGED <<layerIx, idx>>
    /\ UNCHANGED <<prog, items, pos, groups, exitcode, id2url, id2aspect,
                   pole, cascade>>

\* lines 191-218
StyleTrailer ==
    /\ prog = "style" /\ pc = "trailer"
    /\ stdout' = stdout \o Trailer
    /\ pc' = "done"
    /\ exitcode' = "0"
    /\ UNCHANGED <<prog, items, pos, groups, id2url, id2aspect,
                   layerIx, idx, pole, cascade>>

StyleNext ==
    \/ StyleMeta \/ StyleSkip \/ StyleEntry \/ StyleCrash
    \/ StyleGlobals \/ StyleBoiler \/ StyleLayer \/ StyleTrailer

---------------------------------------------------------------------------
(* The runs *)

NoPole == [layer |-> "none", codes |-> <<>>]

Start(p, cat) ==
    /\ prog = p
    /\ pc = IF p = "preset" THEN "loop" ELSE "meta"
    /\ items = cat
    /\ pos = 0
    /\ groups = <<>>
    /\ stdout = <<>>
    /\ exitcode = "running"
    /\ id2url = <<>>
    /\ id2aspect = <<>>
    /\ layerIx = 1
    /\ idx = 0
    /\ pole = NoPole
    /\ cascade = <<>>

\* one run of one of the two scripts on a catalogue
Init == \E p \in {"preset", "style"} : \E cat \in Catalogues : Start(p, cat)

Next == PresetNext \/ StyleNext

Spec == Init /\ [][Next]_vars

---------------------------------------------------------------------------
(* Applying the style sheet to a node.  The MapCSS engine is not part of   *)
(* the scripts; this is what MapCSS defines for the declarations the       *)
(* scripts print: declarations run in the order written, prop(k) reads the *)
(* rule's own layer, prop(k, l) reads layer l, map_get(m, k, d) is d for a *)
(* key m lacks, a rule of layer ::* applies to every layer that exists.    *)

\* a code of the pole's sign list: the sign's id and its free text
Code(id) == [id |-> id, text |-> <<"50">>]

PoleIds == { <<"II.50">>, <<"M", "II.1">>, <<"II.402">>, <<"II.999">> }

\* the nodes the sheet is applied to: one direction layer, up to MaxSigns codes,
\* every one an Italian code (the selector's country test holds at each position)
Poles ==
    {[layer |-> l, codes |-> cs] :
        l \in {Layers[i] : i \in 1..Len(Layers)},
        cs \in SeqUpTo({Code(id) : id \in PoleIds}, MaxSigns)}

RECURSIVE Eval(_, _)
Eval(e, env) ==
    CASE e.op = "num"       -> e.n
      [] e.op = "lit"       -> e.v
      [] e.op = "setting"   -> env.icon_size * Unit
      [] e.op = "code_id"   -> env.code.id
      [] e.op = "code_text" -> env.code.text
      [] e.op = "prop"      -> Get(env.cur, e.key, 0)
      [] e.op = "prop_in"   -> Get(Get(env.all, e.layer, <<>>), e.key, 0)
      [] e.op = "mul"       -> (Eval(e.a, env) * Eval(e.b, env)) \div Unit
      [] e.op = "add"       -> Eval(e.a, env) + Eval(e.b, env)
      [] e.op = "sub"       -> Eval(e.a, env) - Eval(e.b, env)
      [] e.op = "concat"    ->
            IF Len(e.parts) = 0 THEN <<>>
            ELSE Eval(e.parts[1], env) \o Eval(Concat(Tail(e.parts)), env)
      \* the model's texts are digits, which percent-encoding leaves as they are
      [] e.op = "url_query_encode" -> <<e.key, "=">> \o Eval(e.value, env)
      [] e.op = "map_get"   ->
            LET m == env.globals[e.map]
                k == Eval(e.key, env)
            IN  IF HasKey(m, k) THEN Get(m, k, 0) ELSE Eval(e.default, env)

\* the declarations ds run on the layer's properties cur
RECURSIVE RunDecls(_, _, _)
RunDecls(ds, cur, env) ==
    IF ds = <<>> THEN cur
    ELSE RunDecls(Tail(ds),
                  Put(cur, ds[1][1],
                      Eval(ds[1][2], [env EXCEPT !.cur = cur])),
                  env)

\* the rules rs applied in order to node p; all: layer -> properties
RECURSIVE RunRules(_, _, _, _)
RunRules(rs, p, all, env) ==
    IF rs = <<>> THEN all
    ELSE LET r == rs[1]
         IN  IF r.kind = "layer"
             THEN IF r.layer = p.layer /\ r.idx < Len(p.codes)
                  THEN LET l   == <<r.layer, r.idx>>
                           e1  == [env EXCEPT !.all = all,
                                              !.code = p.codes[r.idx + 1]]
                           new == RunDecls(r.decls, Get(all, l, <<>>), e1)
                       IN  RunRules(Tail(rs), p, Put(all, l, new), env)
                  ELSE RunRules(Tail(rs), p, all, env)
             ELSE IF r.kind = "static" /\ "decls" \in DOMAIN r
             THEN RunRules(Tail(rs), p,
                           [i \in 1..Len(all) |->
                               <<all[i][1],
                                 RunDecls(r.decls, all[i][2],
                                          [env EXCEPT !.all = all])>>],
                           env)
             ELSE RunRules(Tail(rs), p, all, env)

\* the globals block of a printed sheet
GlobalsOf(sheet) ==
    sheet[CHOOSE i \in 1..Len(sheet) : sheet[i].kind = "globals"]

Cascades(sheet, p, size) ==
    RunRules(sheet, p, <<>>,
             [icon_size |-> size, globals |-> GlobalsOf(sheet),
              cur |-> <<>>, all |-> <<>>, code |-> Code(<<>>)])

\* the complete sheet is applied to a node, icon_size left at its default
Render ==
    /\ prog = "style" /\ pc = "done" /\ exitcode = "0"
    /\ pole = NoPole
    /\ \E p \in Poles :
        /\ pole' = p
        /\ cascade' = Cascades(stdout, p, IconSizeDefault)
    /\ UNCHANGED <<prog, pc, items, pos, groups, stdout, exitcode,
                   id2url, id2aspect, layerIx, idx>>

\* the records whose ids the poles carry; all of them leave table entries
RenderRecords == {RecMaxspeed, RecDistance, RecNoEquals}

InitRender == \E cat \in SeqUpTo(RenderRecords, MaxItems) : Start("style", cat)

\* the style script on those catalogues (no record is passed over, no width
\* is 0), then the sheet applied to a node
NextRender ==
    \/ StyleMeta \/ StyleEntry \/ StyleGlobals \/ StyleBoiler
    \/ StyleLayer \/ StyleTrailer \/ Render

SpecRender == InitRender /\ [][NextRender]_vars

---------------------------------------------------------------------------
(* What the rules gave the node *)

Rendered == pole # NoPole

\* the slots of the pole the rules matched (the positions of its codes)
Slots == 0..(Len(pole.codes) - 1)

LayerProps(i) == Get(cascade, <<pole.layer, i>>, <<>>)

\* real-height and yoffsetprop of slot i, in 1/Unit
RealHeight(i) == Get(LayerProps(i), "real-height", -1)
Offset(i)     == Get(LayerProps(i), "yoffsetprop", -1)
\* icon-offset-y of slot i; MapCSS takes 0 where a layer declares none
IconOffsetY(i) == Get(LayerProps(i), "icon-offset-y", 0)

\* the aspect ratio the printed table holds for the id at slot i, 1.0 without
\* an entry, in 1/Unit
AspectAt(i) ==
    LET t == GlobalsOf(stdout).aspects
        k == pole.codes[i + 1].id
    IN  IF \E j \in 1..Len(t) : t[j][1] = k
        THEN t[CHOOSE j \in 1..Len(t) : t[j][1] = k][2]
        ELSE Unit

HeightsAsStated ==
    \A i \in Slots : RealHeight(i) * Unit = IconSizeDefault * Unit * AspectAt(i)

\* the aspect ratios 1.0, 0.5, 2.0 of the spec's example, top to bottom
ExamplePole ==
    /\ Rendered
    /\ Len(pole.codes) = 3
    /\ AspectAt(0) = Unit /\ 2 * AspectAt(1) = Unit /\ AspectAt(2) = 2 * Unit

(* C1 as the spec states it: real heights are icon_size x aspect, the offset
   of slot 0 is half its height, and every further slot adds the height of
   the PREVIOUS slot; the example gives heights 32, 16, 64 and offsets 16, 48,
   64.  The rules do not do this. *)
C1_AddsPreviousHeight ==
    Rendered =>
        /\ HeightsAsStated
        /\ \A i \in Slots :
              IF i = 0 THEN 2 * Offset(0) = RealHeight(0)
              ELSE Offset(i) = Offset(i - 1) + RealHeight(i - 1)
        /\ ExamplePole =>
              /\ <<RealHeight(0), RealHeight(1), RealHeight(2)>>
                    = <<32 * Unit, 16 * Unit, 64 * Unit>>
              /\ <<Offset(0), Offset(1), Offset(2)>>
                    = <<16 * Unit, 48 * Unit, 64 * Unit>>

(* C1 amended: in every layer real heights are icon_size x aspect, the offset
   of slot 0 is half its height, and every further slot adds its OWN height:
   offset(idx) = offset(idx-1) + realHeight(idx); the example gives heights
   32, 16, 64 and offsets 16, 32, 96. *)
C1_AddsOwnHeight ==
    Rendered =>
        /\ HeightsAsStated
        /\ \A i \in Slots :
              IF i = 0 THEN 2 * Offset(0) = RealHeight(0)
              ELSE Offset(i) = Offset(i - 1) + RealHeight(i)
        /\ ExamplePole =>
              /\ <<RealHeight(0), RealHeight(1), RealHeight(2)>>
                    = <<32 * Unit, 16 * Unit, 64 * Unit>>
              /\ <<Offset(0), Offset(1), Offset(2)>>
                    = <<16 * Unit, 32 * Unit, 96 * Unit>>

\* the example's pole in the backward layer, its three slots given offsets
C1_Witness ==
    /\ ExamplePole
    /\ pole.layer = "backward"
    /\ Offset(2) = 96 * Unit

(* C2: in every layer, the aspect ratios being non-negative, the offsets do
   not decrease from one slot to the next, and the offset of slot 0 is
   exactly half the real height of slot 0. *)
C2_OffsetsMonotone ==
    (Rendered /\ \A i \in Slots : AspectAt(i) >= 0) =>
        /\ \A i \in Slots : i > 0 => Offset(i) >= Offset(i - 1)
        /\ 0 \in Slots => 2 * Offset(0) = RealHeight(0)

\* three slots, one of aspect 0 (its offset equals the one above) under one
\* that is not
C2_Witness ==
    /\ Rendered
    /\ Len(pole.codes) = 3
    /\ AspectAt(0) > 0 /\ AspectAt(1) > 0 /\ AspectAt(2) = 0
    /\ Offset(1) > Offset(0)
    /\ Offset(2) = Offset(1)

(* C3: the stack has neither gap nor overlap: slot 0 is centred on the
   mounting point (icon-offset-y 0), and for every further slot the top edge
   icon-offset-y - realHeight/2 is the bottom edge icon-offset-y +
   realHeight/2 of the slot above (both sides doubled). *)
C3_GapFree ==
    Rendered =>
        \A i \in Slots :
            IF i = 0 THEN IconOffsetY(0) = 0
            ELSE 2 * IconOffsetY(i) - RealHeight(i)
                    = 2 * IconOffsetY(i - 1) + RealHeight(i - 1)

\* three icons of different heights, the third one's centre 64 below the
\* mounting point
C3_Witness ==
    /\ ExamplePole
    /\ pole.layer = "forward"
    /\ IconOffsetY(1) = 24 * Unit
    /\ IconOffsetY(2) = 64 * Unit

---------------------------------------------------------------------------
(* What the preset script printed *)

\* the script ended by printing the document
Emitted ==
    /\ prog = "preset" /\ pc = "done"
    /\ Len(stdout) = 1 /\ stdout[1].kind = "presets"

\* the section groups of the printed document
DocGroups == stdout[1].group.groups

\* the item nodes of the groups gs in document order
RECURSIVE AllItems(_)
AllItems(gs) == IF gs = <<>> THEN <<>> ELSE gs[1].items \o AllItems(Tail(gs))

\* the field nodes of an item: its children but the link and the reference
Fields(e) == SelectSeq(e.children, LAMBDA c : c.tag \in {"key", "text", "combo"})

Indices(n) == [i \in 1..n |-> i]

\* the record as it was read: `items` holds it with or without the appended tag
Original(item) ==
    CHOOSE r \in Records :
        item = r \/ item = [r EXCEPT !.tags = Append(r.tags, CanonicalTag)]

\* eligible as the spec has it: an id and a non-empty urls sequence
SpecEligible(r) == IF "id" \in DOMAIN r THEN r.urls # <<>> ELSE FALSE

\* an id, a non-empty urls sequence and a filename, be it empty
HasIdUrlsFile(r) == IF SpecEligible(r) THEN "filename" \in DOMAIN r ELSE FALSE

\* the id the preset writes
WrittenId(r) == Remove(Strip(r.id), "/")

\* the list of tag templates tags() was given for record r
SourceList(r) ==
    IF \E j \in 1..Len(TAGS) : TAGS[j][1] = WrittenId(r)
    THEN SplitWs(TAGS[CHOOSE j \in 1..Len(TAGS) : TAGS[j][1] = WrittenId(r)][2])
    ELSE Append(Original(r).tags, CanonicalTag)

\* the indices of the records that have an id, urls and a filename
ItemRecords == SelectSeq(Indices(Len(items)), LAMBDA i : HasIdUrlsFile(items[i]))

KeysOf(ts) == {TagKey(ts[j]) : j \in 1..Len(ts)}
WithKey(ts, k) == SelectSeq(ts, LAMBDA t : TagKey(t) = k)

(* C4 as the spec states it: in the printed document every item has, for
   each distinct key of its tag source (the override entry or the raw tags
   with the appended tag), exactly one field of that key, and for a key that
   occurs N > 1 times that field is a combo holding the N values in order. *)
C4_OneFieldPerKey ==
    Emitted =>
        \A k \in 1..Len(ItemRecords) :
            LET r  == items[ItemRecords[k]]
                ts == SourceList(r)
                fs == Fields(AllItems(DocGroups)[k])
            IN  \A key \in KeysOf(ts) :
                    LET hits == {j \in 1..Len(fs) : fs[j].key = key}
                        occ  == WithKey(ts, key)
                    IN  /\ Cardinality(hits) = 1
                        /\ Len(occ) > 1 =>
                              \A j \in hits :
                                  /\ fs[j].tag = "combo"
                                  /\ Split(fs[j].values, ",")
                                        = [n \in 1..Len(occ) |->
                                              TagValue(Format(occ[n],
                                                  COUNTRY_PREFIX \o WrittenId(r)))]

\* record i was given to tags() with a template that holds no "="
Malformed(i) ==
    /\ i <= pos
    /\ HasIdUrlsFile(items[i])
    /\ \E j \in 1..Len(SourceList(items[i])) : ~Contains(SourceList(items[i])[j], "=")

(* C5: once a record whose tag source holds a template without "=" has been
   resolved, the script has ended, that record is the last one consumed, and
   all it has printed is the report of that record's id and of a group of its
   templates holding the one without "="; no document is printed.  A report
   is printed in no other case. *)
C5_MalformedAborts ==
    prog = "preset" =>
        /\ (\E i \in 1..Len(items) : Malformed(i)) =>
              /\ pc = "done"
              /\ Malformed(pos)
              /\ \A i \in 1..(pos - 1) : ~Malformed(i)
              /\ Len(stdout) = 1
              /\ stdout[1].kind = "report"
              /\ stdout[1].id = WrittenId(items[pos])
              /\ \E j \in 1..Len(stdout[1].gtags) : ~Contains(stdout[1].gtags[j], "=")
              /\ \A j \in 1..Len(stdout[1].gtags) :
                    \E n \in 1..Len(SourceList(items[pos])) :
                        stdout[1].gtags[j]
                            = Format(SourceList(items[pos])[n],
                                     COUNTRY_PREFIX \o WrittenId(items[pos]))
        /\ (\E j \in 1..Len(stdout) : stdout[j].kind = "report") =>
              (pos > 0 /\ Malformed(pos))

\* the malformed record comes third, after two records that became items
C5_Witness ==
    /\ prog = "preset" /\ pc = "done"
    /\ pos = 3
    /\ Malformed(3)
    /\ Len(AllItems(groups)) = 2
    /\ stdout[1].kind = "report"

(* C6 as the spec states it: the printed document holds, in input order,
   exactly one item for every record with an id and a non-empty urls
   sequence, and no other item. *)
C6_ItemPerSpecEligible ==
    Emitted =>
        LET want == SelectSeq(Indices(Len(items)), LAMBDA i : SpecEligible(items[i]))
            its  == AllItems(DocGroups)
        IN  /\ Len(its) = Len(want)
            /\ \A k \in 1..Len(its) : its[k].name = WrittenId(items[want[k]])

(* C6 amended: the printed document holds, in input order, exactly one item
   for every record with an id, a non-empty urls sequence and a filename
   (the item's icon), and no other item. *)
C6_ItemPerRecordWithFile ==
    Emitted =>
        LET its == AllItems(DocGroups)
        IN  /\ Len(its) = Len(ItemRecords)
            /\ \A k \in 1..Len(its) :
                  /\ its[k].name = WrittenId(items[ItemRecords[k]])
                  /\ its[k].icon = items[ItemRecords[k]].filename

\* a document of two items from three records, one without filename, one
\* with the empty filename
C6_Witness ==
    /\ Emitted
    /\ Len(items) = 3
    /\ Len(AllItems(DocGroups)) = 2
    /\ \E i \in 1..3 : SpecEligible(items[i]) /\ "filename" \notin DOMAIN items[i]
    /\ \E k \in 1..2 : AllItems(DocGroups)[k].icon = <<>>

\* missing id or empty urls
Ineligible(r) == ~SpecEligible(r)

\* a turn of either script's loop over the records that consumes an
\* ineligible record leaves the items, both tables, the output, the records
\* and the script's course as they were
C7_Step ==
    (pc = "loop" /\ pos < Len(items) /\ pos' = pos + 1
        /\ Ineligible(items[pos + 1])) =>
            /\ AllItems(groups') = AllItems(groups)
            /\ id2url' = id2url
            /\ id2aspect' = id2aspect
            /\ stdout' = stdout
            /\ items' = items
            /\ exitcode' = exitcode
            /\ pc' = pc

(* C7: a record without id or with an empty urls sequence is passed over by
   both scripts: the step that consumes it adds no item, no table entry and
   no output, raises nothing, and leaves the other records as they are. *)
C7_IneligibleLeavesNoTrace == [][C7_Step]_vars

\* a document whose two items come from the records around a record
\* without id
C7_Witness ==
    /\ Emitted
    /\ Len(items) = 3
    /\ "id" \notin DOMAIN items[2]
    /\ HasIdUrlsFile(items[1]) /\ HasIdUrlsFile(items[3])
    /\ Len(AllItems(DocGroups)) = 2

(* C8: the fields of an item are those tags() gives for the entry of TAGS
   under the written id when there is one, and otherwise those it gives for
   the record's raw tags followed by traffic_sign={id}. *)
C8_OverridePrecedence ==
    Emitted =>
        \A k \in 1..Len(ItemRecords) :
            LET r   == Original(items[ItemRecords[k]])
                id_ == WrittenId(r)
                fs  == Fields(AllItems(DocGroups)[k])
            IN  IF \E j \in 1..Len(TAGS) : TAGS[j][1] = id_
                THEN fs = tags(id_, [isstr |-> TRUE,
                                     v |-> TAGS[CHOOSE j \in 1..Len(TAGS) :
                                                    TAGS[j][1] = id_][2]]).fields
                ELSE fs = tags(id_, [isstr |-> FALSE,
                                     v |-> Append(r.tags, CanonicalTag)]).fields

\* an overridden record whose raw tag hazard=ice left no field, beside a
\* record without override whose last field is the appended tag
C8_Witness ==
    /\ Emitted
    /\ Len(items) = 2
    /\ Original(items[1]) = RecRocks /\ Original(items[2]) = RecCombo
    /\ Len(AllItems(DocGroups)) = 2
    /\ \A j \in 1..Len(Fields(AllItems(DocGroups)[1])) :
          Fields(AllItems(DocGroups)[1])[j].key # <<"hazard">>
          \/ Fields(AllItems(DocGroups)[1])[j].value = <<"falling_rocks">>
    /\ LET fs == Fields(AllItems(DocGroups)[2])
       IN  fs[Len(fs)].value = <<"IT:", "II.400">>

\* the label of a group node, and the label a section gives
GroupLabel(g) == IF "name" \in DOMAIN g THEN <<g.itname, g.name>> ELSE <<g.itname>>
SectionLabel(section) == GroupLabel(NewGroup(section))

\* the names of the items the records i..j give
ItemNames(i, j) ==
    LET idxs == SelectSeq(Indices(Len(items)),
                          LAMBDA n : i <= n /\ n <= j /\ HasIdUrlsFile(items[n]))
    IN  [k \in 1..Len(idxs) |-> WrittenId(items[idxs[k]])]

NamesIn(g) == [k \in 1..Len(g.items) |-> g.items[k].name]

(* C9 as the spec states it: the groups of the document are the section
   labels in the order they are first seen, one group per label, each
   holding the items of all the records of that label in input order. *)
C9_FirstSeenOrder ==
    Emitted =>
        LET firsts == SelectSeq(Indices(Len(items)),
                          LAMBDA i : \A j \in 1..(i - 1) :
                                        items[j].section # items[i].section)
        IN  /\ Len(DocGroups) = Len(firsts)
            /\ \A k \in 1..Len(firsts) :
                  /\ GroupLabel(DocGroups[k]) = SectionLabel(items[firsts[k]].section)
                  /\ LET idxs == SelectSeq(Indices(Len(items)),
                                     LAMBDA n : /\ items[n].section
                                                     = items[firsts[k]].section
                                                /\ HasIdUrlsFile(items[n]))
                     IN  NamesIn(DocGroups[k])
                            = [m \in 1..Len(idxs) |-> WrittenId(items[idxs[m]])]

\* the first records of the runs of adjacent records with one section
RunStarts ==
    SelectSeq(Indices(Len(items)),
              LAMBDA i : i = 1 \/ items[i].section # items[i - 1].section)
RunEnd(k) == IF k = Len(RunStarts) THEN Len(items) ELSE RunStarts[k + 1] - 1

(* C9 amended: the groups of the document are the maximal runs of adjacent
   records with the same section label, in input order, one group per run (a
   label gets one position when its records are adjacent, and one per run
   when they are not), each holding the items of its run in input order. *)
C9_RunOrder ==
    Emitted =>
        /\ Len(DocGroups) = Len(RunStarts)
        /\ \A k \in 1..Len(RunStarts) :
              /\ GroupLabel(DocGroups[k]) = SectionLabel(items[RunStarts[k]].section)
              /\ NamesIn(DocGroups[k]) = ItemNames(RunStarts[k], RunEnd(k))

\* one label in two runs: three groups, the first and the third of one label
C9_Witness ==
    /\ Emitted
    /\ Len(items) = 3
    /\ items[1].section = items[3].section
    /\ items[1].section # items[2].section
    /\ Len(DocGroups) = 3
    /\ \A k \in 1..3 : Len(DocGroups[k].items) = 1

---------------------------------------------------------------------------
(* What the style script printed *)

\* layer and slot of the layer rules printed so far
LayerRulesPrinted ==
    LET ls == SelectSeq(stdout, LAMBDA r : r.kind = "layer")
    IN  [k \in 1..Len(ls) |-> <<ls[k].layer, ls[k].idx>>]

NestedOrder ==
    << <<"noward", 0>>,   <<"noward", 1>>,   <<"noward", 2>>,
       <<"forward", 0>>,  <<"forward", 1>>,  <<"forward", 2>>,
       <<"backward", 0>>, <<"backward", 1>>, <<"backward", 2>> >>

IsStatic(r, roles) == IF r.kind = "static" THEN r.role \in roles ELSE FALSE
IsLayer(r) == r.kind = "layer"

StyleDone == prog = "style" /\ pc = "done" /\ exitcode = "0"

LayersInNestedOrder ==
    /\ LayerRulesPrinted = SubSeq(NestedOrder, 1, Len(LayerRulesPrinted))
    /\ StyleDone => LayerRulesPrinted = NestedOrder

(* C10 as the spec states it: every static rule (the rules that turn off the
   default speed-limit drawing, the zoom cutoff, the base styling) stands
   before every layer rule, and the nine layer rules are in nested order. *)
C10_BoilerplateFirst ==
    prog = "style" =>
        /\ LayersInNestedOrder
        /\ \A i, j \in 1..Len(stdout) :
              (stdout[i].kind = "static" /\ IsLayer(stdout[j])) => i < j

(* C10 amended: the rules of the first block (icon_size setting, turning off
   the default speed-limit drawing, selection, rotation, code lists, node.sign
   constants) stand before every layer rule, the nine layer rules are in
   nested order, and the two rules of layer ::* (base styling, z-16 cutoff)
   stand after every layer rule, the cutoff last. *)
C10_LayersBetween ==
    prog = "style" =>
        /\ LayersInNestedOrder
        /\ \A i, j \in 1..Len(stdout) :
              /\ (IsStatic(stdout[i], {"no_maxspeed", "select", "rotation",
                                        "codes", "styles"})
                    /\ IsLayer(stdout[j])) => i < j
              /\ (stdout[i].kind = "setting" /\ IsLayer(stdout[j])) => i < j
              /\ (IsStatic(stdout[i], {"base", "zoom_cutoff"})
                    /\ IsLayer(stdout[j])) => j < i
        /\ StyleDone =>
              /\ \E i \in 1..Len(stdout) : IsStatic(stdout[i], {"no_maxspeed"})
              /\ IsStatic(stdout[Len(stdout) - 1], {"base"})
              /\ IsStatic(stdout[Len(stdout)], {"zoom_cutoff"})

\* the complete sheet of a catalogue that left table entries
C10_Witness ==
    /\ StyleDone
    /\ Len(LayerRulesPrinted) = 9
    /\ Len(id2aspect) = 2
    /\ IsStatic(stdout[Len(stdout)], {"zoom_cutoff"})

\* the defaults written into the declarations of a layer rule: the icon
\* "unknown" for an id the url table lacks, the aspect 1.0 for an id the
\* aspect table lacks
DefaultsWritten(r) ==
    /\ Get(r.decls, "icon-image", Lit(<<>>)).parts[1]
          = MapGet("urls", Prop("traffic-sign-id"), Lit(<<"unknown">>))
    /\ Get(r.decls, "real-height", Lit(<<>>))
          = Mul(Setting("icon_size"),
                MapGet("aspects", Prop("traffic-sign-id"), Num(Unit)))

\* the sheet is printed to its last rule
SheetComplete ==
    /\ exitcode = "0"
    /\ \E j \in 1..Len(stdout) : stdout[j].kind = "globals"
    /\ LayerRulesPrinted = NestedOrder
    /\ IsStatic(stdout[Len(stdout)], {"zoom_cutoff"})

(* C11 as the spec states it: every layer rule carries the defaults
   "unknown" and 1.0 for ids the tables lack, and the style script ends, on
   every catalogue, with the complete sheet printed. *)
C11_AlwaysComplete ==
    prog = "style" =>
        /\ \A j \in 1..Len(stdout) : IsLayer(stdout[j]) => DefaultsWritten(stdout[j])
        /\ pc = "done" => SheetComplete

\* on a node, a slot whose id the url table lacks shows the icon "unknown"
\* and a slot whose id the aspect table lacks is icon_size high
MissingEntriesDefault ==
    Rendered =>
        \A i \in Slots :
            LET k == pole.codes[i + 1].id
                g == GlobalsOf(stdout)
            IN  /\ ~HasKey(g.urls, k) =>
                      SubSeq(Get(LayerProps(i), "icon-image", <<>>), 1, 2)
                          = <<"unknown", "?">>
                /\ ~HasKey(g.aspects, k) =>
                      RealHeight(i) = IconSizeDefault * Unit

---------------------------------------------------------------------------
(* The fields of the printed items *)

\* every field of every item of the printed document
AllFields ==
    LET its == AllItems(DocGroups)
    IN  UNION {{Fields(its[k])[j] : j \in 1..Len(Fields(its[k]))} : k \in 1..Len(its)}

FixedFields == {f \in AllFields : f.tag = "key"}

\* the value of a fixed field, plain or template
ValueOf(f) == IF "value" \in DOMAIN f THEN f.value ELSE f.value_template

\* the value names a supplementary sign: "IT:" followed by an id in "M"
Supplementary(v) ==
    IF Len(v) >= 2 THEN v[1] = "IT:" /\ v[2] = "M" ELSE FALSE

(* C12: every fixed field of the printed document has the filter "^IT:" and
   the join character ";", but for the fields of key traffic_sign whose value
   begins with "IT:M", which have the join character ",": no field of another
   key and no field of another value has the comma. *)
C12_JoinCharacter ==
    Emitted =>
        \A f \in FixedFields :
            /\ f.append_regex_search = <<"^", "IT:">>
            /\ f.append_with =
                  IF f.key = <<"traffic_sign">> /\ Supplementary(ValueOf(f))
                  THEN <<",">> ELSE <<";">>

\* a document with the three cases: a supplementary code under traffic_sign
\* (comma), the same code under another key (semicolon), a main sign under
\* traffic_sign (semicolon)
C12_Witness ==
    /\ Emitted
    /\ \E f \in FixedFields :
          /\ f.key = <<"traffic_sign">> /\ Supplementary(ValueOf(f))
          /\ f.append_with = <<",">>
    /\ \E f \in FixedFields :
          /\ f.key = <<"ref">> /\ Supplementary(ValueOf(f))
          /\ f.append_with = <<";">>
    /\ \E f \in FixedFields :
          /\ f.key = <<"traffic_sign">> /\ ~Supplementary(ValueOf(f))
          /\ f.append_with = <<";">>

\* the tag at place n of the source ts is a group of its own
Alone(ts, n) ==
    /\ n = 1 \/ TagKey(ts[n - 1]) # TagKey(ts[n])
    /\ n = Len(ts) \/ TagKey(ts[n + 1]) # TagKey(ts[n])

\* the value of the tag at place n of the source of record r
ValueAt(r, n) == Split(Format(SourceList(r)[n], COUNTRY_PREFIX \o WrittenId(r)), "=")[2]

\* the names of the {nosave:<name>} placeholders of v, in order
NosaveNames(v) ==
    LET at == SelectSeq(Indices(Len(v)),
                  LAMBDA p : /\ p + 3 <= Len(v)
                             /\ v[p] = "{" /\ v[p + 1] = "nosave:" /\ v[p + 3] = "}")
    IN  [i \in 1..Len(at) |-> v[at[i] + 2]]

\* the places of the source of r that are groups of size 1 with a value
\* other than "*" that holds a placeholder
Templated(r) ==
    {n \in 1..Len(SourceList(r)) :
        /\ Alone(SourceList(r), n)
        /\ ValueAt(r, n) # <<"*">>
        /\ \E p \in 1..Len(ValueAt(r, n)) : ValueAt(r, n)[p] = "{"}

\* the places of the source of r that are groups of size 1 with the value "*"
FreeText(r) ==
    {n \in 1..Len(SourceList(r)) :
        Alone(SourceList(r), n) /\ ValueAt(r, n) = <<"*">>}

RECURSIVE SumOver(_, _)
SumOver(S, f) ==
    IF S = {} THEN 0
    ELSE LET x == CHOOSE y \in S : TRUE IN f[x] + SumOver(S \ {x}, f)

(* C13: in the printed document, a group of size 1 whose value is not "*"
   and holds a placeholder gives exactly one fixed field of its key with the
   value as template, the placeholder still in it, and right before it one
   text field of key nosave:<name> for each {nosave:<name>} of the value, in
   order; an item has no text field but these and those of the "*" groups.
   The item of II.50 has exactly the templated traffic_sign field and the
   maxspeed text field. *)
C13_TemplatedField ==
    Emitted =>
        \A k \in 1..Len(ItemRecords) :
            LET r  == items[ItemRecords[k]]
                ts == SourceList(r)
                fs == Fields(AllItems(DocGroups)[k])
            IN  /\ \A n \in Templated(r) :
                      LET v  == ValueAt(r, n)
                          ns == NosaveNames(v)
                          js == {j \in 1..Len(fs) :
                                    /\ fs[j].tag = "key"
                                    /\ fs[j].key = TagKey(ts[n])
                                    /\ "value_template" \in DOMAIN fs[j]}
                      IN  /\ Cardinality({j \in js : fs[j].value_template = v}) = 1
                          /\ \A j \in js :
                                /\ "value" \notin DOMAIN fs[j]
                                /\ fs[j].value_template = v =>
                                      /\ j > Len(ns)
                                      /\ \A i \in 1..Len(ns) :
                                            fs[j - Len(ns) + i - 1]
                                                = [tag |-> "text",
                                                   text |-> Capitalize(<<ns[i]>>),
                                                   key |-> <<"nosave:", ns[i]>>]
                /\ Cardinality({j \in 1..Len(fs) : fs[j].tag = "text"})
                      = Cardinality(FreeText(r))
                        + SumOver(Templated(r),
                                  [n \in Templated(r) |-> Len(NosaveNames(ValueAt(r, n)))])
                /\ WrittenId(r) = <<"II.50">> =>
                      /\ Len(fs) = 2
                      /\ fs[1].tag = "key" /\ fs[1].key = <<"traffic_sign">>
                      /\ fs[1].value_template
                            = <<"IT:", "II.50", "[", "{", "maxspeed", "}", "]">>
                      /\ fs[2] = [tag |-> "text", text |-> <<"Maxspeed">>,
                                  key |-> <<"maxspeed">>]

\* a document with the item of II.50 (a placeholder that is no nosave) and
\* the item of MII.1 (a nosave placeholder, its text field before the fixed
\* field)
C13_Witness ==
    /\ Emitted
    /\ \E k \in 1..Len(ItemRecords) :
          /\ WrittenId(items[ItemRecords[k]]) = <<"II.50">>
          /\ Templated(items[ItemRecords[k]]) = {1}
    /\ \E k \in 1..Len(ItemRecords) :
          /\ WrittenId(items[ItemRecords[k]]) = <<"M", "II.1">>
          /\ Templated(items[ItemRecords[k]]) = {1}
          /\ Fields(AllItems(DocGroups)[k])[1].key = <<"nosave:", "distance">>
          /\ Fields(AllItems(DocGroups)[k])[2].tag = "key"

---------------------------------------------------------------------------
(* The preset script on one record under every section label *)

\* the longest label, in lexemes
MaxLabel == 5

\* what a heading is made of: words, white space, parentheses
LabelLexemes == {"Foo", "Bar", " ", "\n", "(", ")"}

Labels == SeqUpTo(LabelLexemes, MaxLabel)

InitSection ==
    \E l \in Labels : Start("preset", <<[RecCombo EXCEPT !.section = l]>>)

\* the record becomes an item of the group of its label, then the document
\* is printed
NextSection == PresetItem \/ PresetEmit

SpecSection == InitSection /\ [][NextSection]_vars

Parens == {"(", ")"}

\* label s reads Foo (Bar) with Foo = s[1..i] and the "(" at k + 1: Foo is
\* not empty and does not end in white space, white space fills i+1..k, Bar
\* is what stands between the "(" and the ")" that ends the label, and
\* neither Foo nor Bar holds a parenthesis
ReadsFooBar(s, i, k) ==
    /\ 1 <= i /\ i < k /\ k + 2 <= Len(s)
    /\ s[i] \notin Ws
    /\ \A j \in 1..i : s[j] \notin Parens
    /\ \A j \in (i + 1)..k : s[j] \in Ws
    /\ s[k + 1] = "("
    /\ s[Len(s)] = ")"
    /\ \A j \in (k + 2)..(Len(s) - 1) : s[j] \notin Parens

(* C14 as the spec states it: the group of a label that reads Foo (Bar) has
   the primary name Foo and the alternate name Bar; the group of a label
   without parentheses has the whole label as primary name and no alternate
   name. *)
C14_SectionSplit ==
    Emitted =>
        LET s == items[1].section
            g == DocGroups[1]
        IN  /\ \A i, k \in 1..Len(s) :
                  ReadsFooBar(s, i, k) =>
                      /\ g.itname = SubSeq(s, 1, i)
                      /\ "name" \in DOMAIN g
                      /\ g.name = SubSeq(s, k + 2, Len(s) - 1)
            /\ (\A j \in 1..Len(s) : s[j] \notin Parens) =>
                  (g.itname = s /\ "name" \notin DOMAIN g)

\* the same for the labels whose Foo and Bar hold no line feed
SingleLineSectionSplit ==
    Emitted =>
        LET s == items[1].section
            g == DocGroups[1]
        IN  /\ \A i, k \in 1..Len(s) :
                  (/\ ReadsFooBar(s, i, k)
                   /\ \A j \in (1..i) \cup ((k + 2)..Len(s)) : s[j] # "\n") =>
                      /\ g.itname = SubSeq(s, 1, i)
                      /\ "name" \in DOMAIN g
                      /\ g.name = SubSeq(s, k + 2, Len(s) - 1)
            /\ (\A j \in 1..Len(s) : s[j] \notin Parens) =>
                  (g.itname = s /\ "name" \notin DOMAIN g)

---------------------------------------------------------------------------
(* The catalogue after the run, and the ids of the two documents *)

(* C15 as the spec states it: the preset script leaves the records as they
   were read: at every point of the run every record has the tags sequence it
   had at the start. *)
C15_CatalogueReadOnly ==
    prog = "preset" =>
        \A i \in 1..Len(items) : items[i].tags = Original(items[i]).tags

\* the style script has built and printed its two tables
TablesBuilt ==
    /\ prog = "style"
    /\ \E j \in 1..Len(stdout) : stdout[j].kind = "globals"

(* C16 as stated: once the style script has built its tables, the id the
   preset writes for a record that yields a preset item (the record's id
   stripped of white space and of "/") is a key of the url table and of the
   aspect table. *)
C16_WrittenIdsAreKeys ==
    TablesBuilt =>
        \A i \in 1..Len(items) :
            HasIdUrlsFile(items[i]) =>
                /\ HasKey(id2url, WrittenId(items[i]))
                /\ HasKey(id2aspect, WrittenId(items[i]))

\* the text between the first and the second "=" of t, to the end of t when
\* there is no second
Between(t) ==
    LET eqs == SelectSeq(Indices(Len(t)), LAMBDA p : t[p] = "=")
    IN  SubSeq(t, eqs[1] + 1, IF Len(eqs) >= 2 THEN eqs[2] - 1 ELSE Len(t))

\* the values of the fields fs in order: of the fixed fields and of the
\* members of the combos
RECURSIVE EmittedValues(_)
EmittedValues(fs) ==
    IF fs = <<>> THEN <<>>
    ELSE (CASE fs[1].tag = "key"   -> <<ValueOf(fs[1])>>
            [] fs[1].tag = "combo" -> Split(fs[1].values, ",")
            [] OTHER               -> <<>>)
         \o EmittedValues(Tail(fs))

\* the values the tags of the source of r stand for, in order, but those of
\* the groups of size 1 with the value "*", which are given no value
ExpectedValues(r) ==
    LET ts   == SourceList(r)
        keep == SelectSeq(Indices(Len(ts)), LAMBDA n : n \notin FreeText(r))
    IN  [m \in 1..Len(keep) |->
            Between(Format(ts[keep[m]], COUNTRY_PREFIX \o WrittenId(r)))]

(* C17: in the printed document the values of the fixed fields (plain or
   template) and of the combo members of an item are, tag by tag, the text
   between the first and the second "=" of the tag after the {id}
   substitution; what follows a second "=" is dropped without an error, and
   no value holds a "=". *)
C17_ValueBetweenEquals ==
    Emitted =>
        \A k \in 1..Len(ItemRecords) :
            LET vs == EmittedValues(Fields(AllItems(DocGroups)[k]))
            IN  /\ vs = ExpectedValues(items[ItemRecords[k]])
                /\ \A m \in 1..Len(vs) : \A p \in 1..Len(vs[m]) : vs[m][p] # "="

\* a document with the tag hazard=fog=x as a combo member (II.400) and as a
\* fixed field (MII.9), its value fog in both
C17_Witness ==
    /\ Emitted
    /\ \E f \in AllFields :
          f.tag = "combo" /\ f.key = <<"hazard">> /\ f.values = <<"ice", ",", "fog">>
    /\ \E f \in FixedFields : f.key = <<"hazard">> /\ ValueOf(f) = <<"fog">>
    /\ \E k \in 1..Len(ItemRecords) :
          \E n \in 1..Len(SourceList(items[ItemRecords[k]])) :
              Len(SelectSeq(SourceList(items[ItemRecords[k]])[n],
                            LAMBDA x : x = "=")) = 2

=============================================================================
